---- MODULE Spec2Model ----
(***************************************************************************)
(* ImgTag (PD758/ImgTag): the Window class of src/window.py and its        *)
(* GifImageTk animated-frame loader, as a state machine.                   *)
(*                                                                         *)
(* Conventions                                                             *)
(*   - Python None for an integer-valued field is 0; canvas item ids,      *)
(*     GifImageTk objects and PIL image handles are numbered from 1.       *)
(*   - image_iter is the 0-based Python index: the current item is         *)
(*     image_list[image_iter + 1].                                         *)
(*   - A tag is the sequence of its characters, so that startswith() is    *)
(*     computed, not assumed.                                              *)
(*   - Every method of Window is an operator from a state record to a      *)
(*     state record (field exc carries an exception in flight); an action  *)
(*     is one whole event handler run by the Tk event loop.                *)
(***************************************************************************)
EXTENDS Integers, Sequences, FiniteSets, TLC

(***************************************************************************)
(* Bounds of the model                                                     *)
(***************************************************************************)
MaxGifs == 2      \* GifImageTk objects alive at once
MaxTimers == 1    \* pending after(10, ...) callbacks
MaxDetect == 2    \* resize notifications in one burst
MaxDepth == 8     \* call depth at which Python raises RecursionError

(***************************************************************************)
(* Program constants                                                       *)
(***************************************************************************)
PRIME_FRAMES == 3         \* for _ in range(3)
DEFAULT_DURATION == 100   \* image.info.get("duration", 100)
MIN_CANVAS == 10          \* cw < 10 or ch < 10
FLUSH_RETRY_MS == 10      \* self.after(10, ...)
RESIZE_DELAY_MS == 125    \* self.after(125, self.resizelast_detect_f, ...)

None == 0
PHOTO == -1               \* _image_cl holds an ImageTk.PhotoImage
UNSET == -1               \* attribute never assigned (GifImageTk.image_id)

Min(a, b) == IF a < b THEN a ELSE b
Range(f) == {f[i] : i \in DOMAIN f}

(***************************************************************************)
(* Tags                                                                    *)
(***************************************************************************)
SCORE_PREFIX == <<"s", "c", "o", "r", "e", "_", "_">>

\* str.startswith
StartsWith(str, prefix) ==
    /\ Len(str) >= Len(prefix)
    /\ SubSeq(str, 1, Len(prefix)) = prefix

IsScore(tag) == StartsWith(tag, SCORE_PREFIX)

\* any(tag.startswith('score__') for tag in tags)
AnyScore(tags) == \E i \in 1..Len(tags) : IsScore(tags[i])

\* the keys keypress_callback passes to handle_tag
Digits == {"7", "*"}

\* 'score__%s' % ("10" if digit == '*' else digit)
ScoreTag(digit) ==
    SCORE_PREFIX \o (IF digit = "*" THEN <<"1", "0">> ELSE <<digit>>)

TagCat == <<"c", "a", "t">>
TagScoreWord == <<"s", "c", "o", "r", "e">>     \* not a score tag: no "__"

(***************************************************************************)
(* The file system the program browses                                     *)
(*   kind     what opening the file gives                                  *)
(*     "image"     Image.open succeeds, nframes frames                     *)
(*     "corrupt"   Image.open raises                                       *)
(*     "vanished"  listed by os.walk, gone when os.path.exists is asked    *)
(*     "video"     vlc loads and plays it                                  *)
(*     "badvideo"  vlc_player.play() returns -1                            *)
(*     "text"      not a media file                                        *)
(*     "nodisplay" an image that opens and decodes, but of which           *)
(*                 ImageTk.PhotoImage cannot be made                       *)
(*   bad      index of the frame whose decoding raises OSError, -1 if none *)
(*   duration image.info["duration"], 0 when the format gives none         *)
(***************************************************************************)
File(stem, ext, kind, nframes, bad, duration) ==
    [stem |-> stem, ext |-> ext, kind |-> kind, nframes |-> nframes,
     bad |-> bad, duration |-> duration]

FileInfo ==
    [p \in {"c.jpg", "a.png", "e.bmp", "v.mp4", "n.txt", "m.bmp", "w.avi",
            "x.jpeg", "k.png", "p.png", "s.GIF", "b.gif", "t.gif", "o.gif",
            "j.jpg", "u.bmp"} |->
        CASE p = "c.jpg"  -> File("c", ".jpg", "corrupt", 0, -1, 0)
          [] p = "a.png"  -> File("a", ".png", "image", 1, -1, 0)
          [] p = "e.bmp"  -> File("e", ".bmp", "image", 1, -1, 0)
          [] p = "v.mp4"  -> File("v", ".mp4", "video", 0, -1, 0)
          [] p = "n.txt"  -> File("n", ".txt", "text", 0, -1, 0)
          [] p = "m.bmp"  -> File("m", ".bmp", "vanished", 0, -1, 0)
          [] p = "w.avi"  -> File("w", ".avi", "badvideo", 0, -1, 0)
          [] p = "x.jpeg" -> File("x", ".jpeg", "corrupt", 0, -1, 0)
          [] p = "k.png"  -> File("k", ".png", "image", 1, 0, 0)
          [] p = "p.png"  -> File("p", ".png", "image", 1, -1, 0)
          [] p = "s.GIF"  -> File("s", ".GIF", "image", 2, -1, 40)
          [] p = "b.gif"  -> File("b", ".gif", "image", 4, -1, 0)
          [] p = "t.gif"  -> File("t", ".gif", "image", 4, 3, 0)
          [] p = "o.gif"  -> File("o", ".gif", "image", 3, -1, 0)
          [] p = "j.jpg"  -> File("j", ".jpg", "image", 1, -1, 0)
          [] p = "u.bmp"  -> File("u", ".bmp", "nodisplay", 1, -1, 0)]

Files == DOMAIN FileInfo
Stems == {FileInfo[p].stem : p \in Files}

\* the folders the file picker can return, each with its os.walk order
Folders ==
    [d \in {"pics", "bad", "trunc", "none", "anim", "loops", "long"} |->
        CASE d = "pics"  -> <<"c.jpg", "a.png", "m.bmp", "e.bmp", "v.mp4">>
          [] d = "bad"   -> <<"w.avi", "x.jpeg">>
          [] d = "trunc" -> <<"j.jpg", "k.png", "u.bmp">>
          [] d = "none"  -> <<"n.txt">>
          [] d = "anim"  -> <<"p.png", "s.GIF">>
          [] d = "loops" -> <<"b.gif", "t.gif", "o.gif">>
          [] d = "long"  -> <<"b.gif">>]

\* str.lower() on the extensions that occur
Lower(ext) == IF ext = ".GIF" THEN ".gif" ELSE ext

IMAGE_EXTENSIONS == <<".png", ".jpg", ".jpeg", ".bmp", ".gif">>
VIDEO_EXTENSIONS == <<".mp4", ".avi", ".mov", ".mkv">>

\* util.check_ends(path, ends, ignore_case=True)
check_ends(p, ends) == \E i \in 1..Len(ends) : Lower(FileInfo[p].ext) = ends[i]

(***************************************************************************)
(* State                                                                   *)
(***************************************************************************)
VARIABLES
    image_list,         \* Window.image_list
    image_iter,         \* Window.image_iter
    tag_list,           \* Window.tag_list
    window_size,        \* Window.window_size
    resizelast_detect,  \* Window.resizelast_detect
    raw_image,          \* Window._raw_image: a handle of imgs, or None
    image_cl,           \* Window._image_cl: None, PHOTO or a GifImageTk of gifs
    image_cl_id,        \* Window._image_cl_id: a canvas item, or None
    playing_video,      \* Window.playing_video
    VLC_SUPPORT,        \* module global VLC_SUPPORT
    player,             \* the file vlc_player is playing, "" when stopped
    gifs,               \* the GifImageTk objects
    imgs,               \* the PIL image handles: file and current frame
    canvas,             \* the items on the canvas Window.image
    timers,             \* pending after() callbacks, in scheduling order
    sidecar,            \* the .json sidecar of each base name
    trashed,            \* files sent to the trash
    geom,               \* what winfo_width()/winfo_height() of the window give
    canvas_size,        \* what winfo_width()/winfo_height() of the canvas give
    wraplength,         \* the wraplength option of the label Window.tagList
    env                 \* what the user and the desktop do in this session

vars == <<image_list, image_iter, tag_list, window_size, resizelast_detect,
          raw_image, image_cl, image_cl_id, playing_video, VLC_SUPPORT, player,
          gifs, imgs, canvas, timers, sidecar, trashed, geom, canvas_size,
          wraplength, env>>

GifIds == 1..MaxGifs
ImgIds == 1..(MaxGifs + 1)

\* a GifImageTk slot nobody refers to
NoGif ==
    [img |-> None, file |-> "", frames |-> <<>>, current_frame |-> 0,
     stopped |-> "unset",
     image_id |-> UNSET, thr |-> "none", held |-> -1, delay |-> 0, nthr |-> 0]

NoImg == [file |-> "", pos |-> 0]

\* the state as one record, so that methods compose; exc, dialogs, nflush,
\* renders, depth and overflow describe the handler that is running
St ==
    [image_list |-> image_list, image_iter |-> image_iter, tag_list |-> tag_list,
     window_size |-> window_size, resizelast_detect |-> resizelast_detect,
     raw_image |-> raw_image, image_cl |-> image_cl, image_cl_id |-> image_cl_id,
     playing_video |-> playing_video, vlc |-> VLC_SUPPORT, player |-> player,
     gifs |-> gifs, imgs |-> imgs, canvas |-> canvas, timers |-> timers,
     sidecar |-> sidecar, trashed |-> trashed, geom |-> geom,
     canvas_size |-> canvas_size, wraplength |-> wraplength,
     exc |-> "", dialogs |-> <<>>, nflush |-> 0, renders |-> <<>>, depth |-> 0,
     overflow |-> FALSE]

raise(s, e) == [s EXCEPT !.exc = e]
showdialog(s, title) == [s EXCEPT !.dialogs = Append(@, title)]

(***************************************************************************)
(* Tk: after() and the canvas                                              *)
(***************************************************************************)
\* Pending after() callbacks.  Tk runs callbacks of equal delay in the order
\* they were scheduled; the model keeps one queue per delay and lets the
\* queues run in any order relative to each other:
\*   soon    the FLUSH_RETRY_MS callbacks: "flush_image", "reload_image"
\*   checks  the RESIZE_DELAY_MS callbacks: the f_detect_i of each
\*           resizelast_detect_f
\*   anim    the GifImageTk objects whose animate() is pending
NoTimers == [soon |-> <<>>, checks |-> <<>>, anim |-> {}]

\* widget.after(delay, cb, arg)
after(s, delay, cb, arg) ==
    CASE cb = "animate" -> [s EXCEPT !.timers.anim = @ \cup {arg}]
      [] cb = "resizelast_detect_f" -> [s EXCEPT !.timers.checks = Append(@, arg)]
      [] OTHER -> [s EXCEPT !.timers.soon = Append(@, cb),
                            !.overflow = @ \/ Len(s.timers.soon) >= MaxTimers]

\* Tk never hands out an item id twice: ids still referred to are not reused
IdsInUse(s) ==
    s.canvas \cup {s.image_cl_id} \cup {s.gifs[g].image_id : g \in GifIds}

NewId(s) == CHOOSE i \in 1..(MaxGifs + 3) :
                /\ i \notin IdsInUse(s)
                /\ \A j \in 1..(i - 1) : j \in IdsInUse(s)

\* canvas.delete(item)
canvas_delete(s, item) == [s EXCEPT !.canvas = @ \ {item}]

(***************************************************************************)
(* Sidecar tag store                                                       *)
(***************************************************************************)
Absent == [kind |-> "absent", hasTags |-> FALSE, tags |-> <<>>, other |-> ""]
Garbage == [kind |-> "garbage", hasTags |-> FALSE, tags |-> <<>>, other |-> ""]
NonObject == [kind |-> "nonobject", hasTags |-> FALSE, tags |-> <<>>, other |-> ""]
Object(hasTags, tags, other) ==
    [kind |-> "object", hasTags |-> hasTags, tags |-> tags, other |-> other]

\* os.path.splitext(image_path)[0] + '.json', named by the base name
json_path(p) == FileInfo[p].stem

\* os.path.exists(path) of a media file
path_exists(s, p) == FileInfo[p].kind # "vanished" /\ p \notin s.trashed

load_tags(s, p) ==
    LET fc == s.sidecar[json_path(p)]
    IN  CASE fc.kind = "absent"    -> <<>>
          [] fc.kind = "garbage"   -> <<>>      \* orjson.loads raises, caught
          [] fc.kind = "nonobject" -> <<>>      \* fc.get raises, caught
          [] OTHER -> IF fc.hasTags THEN fc.tags ELSE <<>>

\* save_tags that adds the tags to the ones the sidecar holds
save_tags_extend(s, p, tags) ==
    LET old == s.sidecar[json_path(p)]
        fc == IF old.kind \in {"absent", "garbage"} THEN Object(FALSE, <<>>, "")
              ELSE old
    IN  IF fc.kind = "nonobject"
        THEN raise(s, "TypeError")
        ELSE [s EXCEPT !.sidecar[json_path(p)] =
                           Object(TRUE, fc.tags \o tags, fc.other)]

\* save_tags that writes a record of its own instead of the one it read
save_tags_fresh(s, p, tags) ==
    LET old == s.sidecar[json_path(p)]
    IN  IF old.kind = "nonobject"
        THEN raise(s, "TypeError")
        ELSE [s EXCEPT !.sidecar[json_path(p)] = Object(TRUE, tags, "")]

save_tags(s, p, tags) ==
    LET old == s.sidecar[json_path(p)]
        fc == IF old.kind \in {"absent", "garbage"} THEN Object(FALSE, <<>>, "")
              ELSE old
    IN  IF fc.kind = "nonobject"
        THEN raise(s, "TypeError")       \* fc["tags"] = ... on a non-dict
        ELSE [s EXCEPT !.sidecar[json_path(p)] = Object(TRUE, tags, fc.other)]

(***************************************************************************)
(* Object lifetimes (Python keeps an object while something refers to it)  *)
(***************************************************************************)
Running(gif) == gif.thr \in {"copy", "append", "seek"}

HasAnimate(s, g) == g \in s.timers.anim

GifLive(s, g) == s.image_cl = g \/ HasAnimate(s, g) \/ Running(s.gifs[g])

ImgLive(s, h) ==
    \/ s.raw_image = h
    \/ \E g \in GifIds : Running(s.gifs[g]) /\ s.gifs[g].img = h

HasFreeGif(s) == \E g \in GifIds : ~GifLive(s, g)
FreeGif(s) == CHOOSE g \in GifIds :
                  ~GifLive(s, g) /\ \A j \in 1..(g - 1) : GifLive(s, j)
FreeImg(s) == CHOOSE h \in ImgIds :
                  ~ImgLive(s, h) /\ \A j \in 1..(h - 1) : ImgLive(s, j)

\* drop the objects nothing refers to any more
Collect(s) ==
    [s EXCEPT
       !.gifs = [g \in GifIds |->
                   IF ~GifLive(s, g) THEN NoGif
                   ELSE IF Running(s.gifs[g]) THEN s.gifs[g]
                   ELSE [s.gifs[g] EXCEPT !.img = None]],
       !.imgs = [h \in ImgIds |-> IF ImgLive(s, h) THEN s.imgs[h] ELSE NoImg]]

(***************************************************************************)
(* GifImageTk                                                              *)
(***************************************************************************)
\* continue_load_frame, lines 67-71: copy, scale and wrap the frame the
\* handle is at; OSError when that frame cannot be decoded
clf_copy(s, g) ==
    LET im == s.imgs[s.gifs[g].img]
    IN  IF FileInfo[im.file].bad = im.pos
        THEN [s |-> s, ok |-> FALSE]
        ELSE [s |-> [s EXCEPT !.gifs[g].held = im.pos], ok |-> TRUE]

\* continue_load_frame: self.frames.append(...)
clf_append(s, g) ==
    [s EXCEPT !.gifs[g].frames = Append(@, s.gifs[g].held), !.gifs[g].held = -1]

\* a seek that accepts the position one past the last frame
clf_seek_past(s, g) ==
    LET h == s.gifs[g].img
        n == Len(s.gifs[g].frames)
    IN  IF n <= FileInfo[s.imgs[h].file].nframes
        THEN [s |-> [s EXCEPT !.imgs[h].pos = n], ok |-> TRUE]
        ELSE [s |-> s, ok |-> FALSE]

\* continue_load_frame: self.image.seek(len(self.frames)); EOFError past the end
clf_seek(s, g) ==
    LET h == s.gifs[g].img
        n == Len(s.gifs[g].frames)
    IN  IF n < FileInfo[s.imgs[h].file].nframes
        THEN [s |-> [s EXCEPT !.imgs[h].pos = n], ok |-> TRUE]
        ELSE [s |-> s, ok |-> FALSE]

continue_load_frame(s, g) ==
    LET c == clf_copy(s, g)
    IN  IF ~c.ok THEN c ELSE clf_seek(clf_append(c.s, g), g)

\* __init__, lines 43-48: for _ in range(3): ... else: start the worker
RECURSIVE gif_prime(_, _, _)
gif_prime(s, g, n) ==
    IF n = 0
    THEN [s EXCEPT !.gifs[g].thr = "copy", !.gifs[g].nthr = @ + 1]
    ELSE LET r == continue_load_frame(s, g)
         IN  IF r.ok THEN gif_prime(r.s, g, n - 1) ELSE r.s

\* image.info.get("duration", 100)
gif_delay(p) ==
    IF FileInfo[p].duration = 0 THEN DEFAULT_DURATION ELSE FileInfo[p].duration

\* GifImageTk(canvas, x, y, img, resize_thb) built in slot g over handle h
gif_init(s, g, h) ==
    LET fresh == [s EXCEPT !.gifs[g] =
                      [NoGif EXCEPT !.img = h, !.file = s.imgs[h].file]]
        primed == gif_prime(fresh, g, PRIME_FRAMES)
    IN  [primed EXCEPT !.gifs[g].delay = gif_delay(s.imgs[h].file)]

\* animate without the test of self.stopped
gif_animate_nostop(s, g) ==
    LET gif == s.gifs[g]
    IN  IF gif.frames # <<>>
        THEN LET nf == (gif.current_frame + 1) % Len(gif.frames)
             IN  IF gif.image_id > None
                 THEN after([s EXCEPT !.gifs[g].current_frame = nf],
                            gif.delay, "animate", g)
                 ELSE [s EXCEPT !.gifs[g].current_frame = nf,
                                !.gifs[g].stopped = "yes"]
        ELSE IF gif.image_id > None
        THEN [canvas_delete(s, gif.image_id) EXCEPT !.gifs[g].image_id = None]
        ELSE s

gif_animate(s, g) ==
    LET gif == s.gifs[g]
    IN  IF gif.stopped = "yes"
        THEN IF gif.image_id > None
             THEN [canvas_delete(s, gif.image_id) EXCEPT !.gifs[g].image_id = None]
             ELSE s
        ELSE IF gif.frames # <<>>
        THEN LET nf == (gif.current_frame + 1) % Len(gif.frames)
             IN  IF gif.image_id > None
                 THEN after([s EXCEPT !.gifs[g].current_frame = nf],
                            gif.delay, "animate", g)
                 ELSE [s EXCEPT !.gifs[g].current_frame = nf,
                                !.gifs[g].stopped = "yes"]
        ELSE IF gif.image_id > None
        THEN [canvas_delete(s, gif.image_id) EXCEPT !.gifs[g].image_id = None]
        ELSE s

gif_start(s, g) ==
    IF s.gifs[g].frames = <<>>
    THEN s
    ELSE LET id == NewId(s)
         IN  gif_animate([s EXCEPT !.canvas = @ \cup {id},
                                   !.gifs[g].image_id = id,
                                   !.gifs[g].stopped = "no"], g)

gif_destroy(s, g) ==
    LET st == [s EXCEPT !.gifs[g].stopped = "yes"]
    IN  IF st.gifs[g].image_id = UNSET
        THEN raise(st, "AttributeError")      \* self.image_id was never set
        ELSE LET d == IF st.gifs[g].image_id > None
                      THEN canvas_delete(st, st.gifs[g].image_id) ELSE st
             IN  [d EXCEPT !.gifs[g].image_id = None, !.gifs[g].frames = <<>>]

(***************************************************************************)
(* Window                                                                  *)
(***************************************************************************)
InRange(s) == s.image_iter < Len(s.image_list)
CurItem(s) == s.image_list[s.image_iter + 1]

\* list.pop(i), i 0-based
pop(seq, i) == SubSeq(seq, 1, i) \o SubSeq(seq, i + 2, Len(seq))

\* os.path.splitext(path)[1].lower() in self.VIDEO_EXTENSIONS
is_video_ext(p) == check_ends(p, VIDEO_EXTENSIONS)

\* path.lower().endswith(".gif")
is_gif_ext(p) == Lower(FileInfo[p].ext) = ".gif"

_clean_mediasource(s) ==
    LET v == IF s.vlc /\ s.playing_video
             THEN [s EXCEPT !.playing_video = FALSE, !.player = ""]
             ELSE s
        d == IF v.image_cl > None THEN gif_destroy(v, v.image_cl) ELSE v
    IN  IF d.exc # "" THEN d
        ELSE LET c == IF d.image_cl_id # None
                      THEN canvas_delete(d, d.image_cl_id) ELSE d
             IN  [c EXCEPT !.image_cl = None, !.image_cl_id = None,
                           !.raw_image = None]

reload_tags(s) ==
    IF s.image_list # <<>>
    THEN IF ~InRange(s) THEN raise(s, "IndexError")
         ELSE [s EXCEPT !.tag_list = load_tags(s, CurItem(s))]
    ELSE [s EXCEPT !.tag_list = <<>>]

\* an except branch that forgets self.image_iter = 0
drop_current_stay(s) ==
    [showdialog(s, "Error") EXCEPT !.image_list = pop(@, s.image_iter)]

\* the except branches of reload_image: report, drop the item, start over
drop_current(s) ==
    [showdialog(s, "Error") EXCEPT !.image_list = pop(@, s.image_iter),
                                   !.image_iter = 0]

\* the frame the handle is at cannot be decoded: Image.copy() raises OSError
copy_fails(s, h) == FileInfo[s.imgs[h].file].bad = s.imgs[h].pos

Render(kind, cw, ch, rec) == [kind |-> kind, cw |-> cw, ch |-> ch, rec |-> rec]

RECURSIVE reload_image(_)
RECURSIVE flush_image(_, _)

\* flush_image, lines 307-331: build and attach the representation
flush_render(s, _recprotect) ==
    LET cw == s.canvas_size[1]
        ch == s.canvas_size[2]
    IN  IF ~InRange(s)
        THEN raise(s, "IndexError")     \* raised again by the except branch
        ELSE IF is_gif_ext(CurItem(s))
        THEN IF ~HasFreeGif(s) THEN [s EXCEPT !.overflow = TRUE]
             ELSE LET g == FreeGif(s)
                      b == gif_start(gif_init(s, g, s.raw_image), g)
                  IN  [b EXCEPT !.image_cl = g, !.image_cl_id = None,
                                !.renders = Append(@, Render("gif", cw, ch, _recprotect))]
        ELSE IF FileInfo[CurItem(s)].kind = "nodisplay"
        THEN after(showdialog(s, "Image display error"),    \* except Exception
                   FLUSH_RETRY_MS, "reload_image", 0)
        ELSE LET d == IF s.image_cl_id # None
                      THEN canvas_delete(s, s.image_cl_id) ELSE s
                 id == NewId(d)
             IN  [d EXCEPT !.image_cl = PHOTO, !.image_cl_id = id,
                           !.canvas = @ \cup {id},
                           !.renders = Append(@, Render("photo", cw, ch, _recprotect))]

\* flush_image without the test of the canvas size
flush_image_anysize(s, _recprotect) ==
    LET f == [s EXCEPT !.nflush = @ + 1]
    IN  IF f.vlc /\ f.playing_video
        THEN IF f.image_cl_id # None
             THEN [canvas_delete(f, f.image_cl_id) EXCEPT !.image_cl_id = None]
             ELSE f
        ELSE IF f.image_list # <<>> /\ f.raw_image # None
        THEN IF copy_fails(f, f.raw_image)
             THEN reload_image(f)
             ELSE flush_render(f, _recprotect)
        ELSE f

flush_image(s, _recprotect) ==
    LET f == [s EXCEPT !.nflush = @ + 1]
        cw == s.canvas_size[1]
        ch == s.canvas_size[2]
    IN  IF f.vlc /\ f.playing_video
        THEN IF f.image_cl_id # None
             THEN [canvas_delete(f, f.image_cl_id) EXCEPT !.image_cl_id = None]
             ELSE f
        ELSE IF f.image_list # <<>> /\ f.raw_image # None
        THEN IF (cw < MIN_CANVAS \/ ch < MIN_CANVAS) /\ _recprotect
             THEN after(f, FLUSH_RETRY_MS, "flush_image", 0)
             ELSE IF copy_fails(f, f.raw_image)
             THEN reload_image(f)
             ELSE flush_render(f, _recprotect)
        ELSE f

reload_image(s) ==
    IF s.image_list = <<>> THEN s
    ELSE IF s.depth >= MaxDepth THEN raise(s, "RecursionError")
    ELSE IF ~InRange(s) THEN raise(s, "IndexError")
    ELSE
      LET c == _clean_mediasource([s EXCEPT !.depth = @ + 1])
      IN  IF c.exc # "" THEN c
          ELSE IF ~path_exists(c, CurItem(c))
          THEN reload_image(drop_current(c))
          ELSE
            LET t == reload_tags(c)
                p == CurItem(t)
            IN  IF t.vlc /\ is_video_ext(p)
                THEN IF FileInfo[p].kind = "video"
                     THEN [t EXCEPT !.playing_video = TRUE, !.player = p]
                     ELSE reload_image(
                              drop_current([t EXCEPT !.playing_video = TRUE]))
                ELSE IF FileInfo[p].kind \notin {"image", "nodisplay"}
                THEN reload_image(drop_current(t))
                ELSE LET h == FreeImg(t)
                     IN  flush_image(
                             [t EXCEPT !.raw_image = h,
                                       !.imgs[h] = [file |-> p, pos |-> 0],
                                       !.playing_video = FALSE],
                             TRUE)

\* rec_listdir(picked_dir, check_ends(...)): the files on disk, filtered
rec_listdir(s, d) ==
    SelectSeq(Folders[d],
              LAMBDA p : /\ p \notin s.trashed
                         /\ check_ends(p, IMAGE_EXTENSIONS \o
                              (IF s.vlc THEN VIDEO_EXTENSIONS ELSE <<>>)))

\* load_file with the folder the picker returned ("" when cancelled)
load_file(s, d) ==
    IF d = "" THEN s
    ELSE LET files == rec_listdir(s, d)
             w == IF files = <<>> THEN showdialog(s, "No files found") ELSE s
         IN  reload_image([w EXCEPT !.image_list = files, !.image_iter = 0])

\* handle_tag without the removal of the earlier score tags
handle_tag_keep(s, digit) ==
    LET a == [s EXCEPT !.tag_list = Append(@, ScoreTag(digit))]
    IN  IF ~InRange(a) THEN raise(a, "IndexError")
        ELSE save_tags(a, CurItem(a), a.tag_list)

handle_tag(s, digit) ==
    LET kept == IF AnyScore(s.tag_list)
                THEN SelectSeq(s.tag_list, LAMBDA tag : ~IsScore(tag))
                ELSE s.tag_list
        a == [s EXCEPT !.tag_list = Append(kept, ScoreTag(digit))]
    IN  IF ~InRange(a) THEN raise(a, "IndexError")
        ELSE save_tags(a, CurItem(a), a.tag_list)

\* handle_next without the wrap-around
handle_next_nowrap(s) ==
    IF s.image_list # <<>>
    THEN reload_image([s EXCEPT !.image_iter = @ + 1])
    ELSE s

handle_next(s) ==
    IF s.image_list # <<>>
    THEN reload_image([s EXCEPT !.image_iter = (@ + 1) % Len(s.image_list)])
    ELSE s

handle_previous(s) ==
    IF s.image_list # <<>>
    THEN reload_image([s EXCEPT !.image_iter =
                          (@ - 1 + Len(s.image_list)) % Len(s.image_list)])
    ELSE s

RECURSIVE seek_loop(_)
seek_loop(s) ==
    IF s.image_iter < Len(s.image_list) /\ AnyScore(s.tag_list)
    THEN LET n == reload_tags([s EXCEPT !.image_iter = @ + 1])
         IN  IF n.exc # "" THEN n ELSE seek_loop(n)
    ELSE s

handle_seek(s) ==
    IF s.image_list = <<>> THEN s
    ELSE IF ~AnyScore(s.tag_list) THEN s
    ELSE LET l == seek_loop([s EXCEPT !.image_iter = 0])
         IN  IF l.exc # "" THEN l
             ELSE reload_image(reload_tags(
                      [l EXCEPT !.image_iter = @ % Len(l.image_list)]))

\* resizelast_detect_f that leaves the counter as it is
resizelast_detect_f_keep(s, f_detect_i) ==
    IF f_detect_i = s.resizelast_detect
    THEN IF s.vlc /\ ~s.playing_video THEN flush_image(s, TRUE) ELSE s
    ELSE s

\* resizelast_detect_f without the comparison of the generations
resizelast_detect_f_any(s, f_detect_i) ==
    LET r == [s EXCEPT !.resizelast_detect = 0]
    IN  IF r.vlc /\ ~r.playing_video THEN flush_image(r, TRUE) ELSE r

resizelast_detect_f(s, f_detect_i) ==
    IF f_detect_i = s.resizelast_detect
    THEN LET r == [s EXCEPT !.resizelast_detect = 0]
         IN  IF r.vlc /\ ~r.playing_video THEN flush_image(r, TRUE) ELSE r
    ELSE s

handle_resize(s) ==
    IF s.geom # s.window_size
    THEN LET r == [s EXCEPT !.window_size = s.geom, !.resizelast_detect = @ + 1]
         IN  after(r, RESIZE_DELAY_MS, "resizelast_detect_f", r.resizelast_detect)
    ELSE s

\* update_taglist_wraplength: dataGroup spans the window but for its padx
update_taglist_wraplength(s) ==
    LET width == s.geom[1] - 10
        new_wraplength == IF width - 10 > 50 THEN width - 10 ELSE 50
    IN  IF s.wraplength # new_wraplength
        THEN [s EXCEPT !.wraplength = new_wraplength]
        ELSE s

\* widget.bind(sequence, func, add): without add the new binding replaces
\* the script the sequence was bound to
bind(bindings, sequence, func, add) ==
    [bindings EXCEPT ![sequence] = IF add THEN Append(@, func) ELSE <<func>>]

EventSequences ==
    {"<KeyPress>", "<Key-Left>", "<Key-Right>", "<Key-Down>", "<Key-Up>",
     "<Configure>", "<Delete>", "<Escape>"}

\* register_hotkeys: what each sequence is bound to once it has returned
register_hotkeys ==
    LET b0 == [q \in EventSequences |-> <<>>]
        b1 == bind(b0, "<KeyPress>", "keypress_callback", TRUE)
        b2 == bind(b1, "<Key-Left>", "handle_previous", FALSE)
        b3 == bind(b2, "<Key-Right>", "handle_next", FALSE)
        b4 == bind(b3, "<Key-Down>", "volume_down", FALSE)
        b5 == bind(b4, "<Key-Up>", "volume_up", FALSE)
        b6 == bind(b5, "<Configure>", "handle_resize", FALSE)
        b7 == bind(b6, "<Configure>", "update_taglist_wraplength", FALSE)
        b8 == bind(b7, "<Delete>", "handle_delete", FALSE)
    IN  bind(b8, "<Escape>", "on_close", FALSE)

\* the handlers bound to a sequence run in the order they were bound
RECURSIVE run_bound(_, _)
run_bound(s, funcs) ==
    IF funcs = <<>> THEN s
    ELSE LET r == CASE Head(funcs) = "handle_resize" -> handle_resize(s)
                    [] Head(funcs) = "update_taglist_wraplength" ->
                           update_taglist_wraplength(s)
                    [] OTHER -> s
         IN  run_bound(r, Tail(funcs))

\* handle_delete; confirm is the user's answer, trash what send2trash does:
\* "ok", or "fail" when it raises on the media file
handle_delete(s, confirm, trash) ==
    IF s.image_list = <<>> THEN showdialog(s, "Delete")
    ELSE IF ~InRange(s) THEN raise(s, "IndexError")
    ELSE IF ~confirm THEN s
    ELSE
      LET p == CurItem(s)
          has == s.sidecar[json_path(p)].kind # "absent"
          failed == showdialog(s, "Delete error")
      IN  IF trash = "fail" THEN failed
          ELSE LET m == [s EXCEPT !.trashed = @ \cup {p}]
               IN    LET j == IF has THEN [m EXCEPT !.sidecar[json_path(p)] = Absent]
                              ELSE m
                         q == [j EXCEPT !.image_list = pop(@, s.image_iter)]
                     IN  IF q.image_list = <<>>
                         THEN showdialog(q, "Delete error")   \* ZeroDivisionError
                         ELSE LET r == reload_image(
                                         [q EXCEPT !.image_iter = @ % Len(q.image_list)])
                              IN  IF r.exc # ""
                                  THEN showdialog([r EXCEPT !.exc = ""], "Delete error")
                                  ELSE r

(***************************************************************************)
(* The environment                                                         *)
(***************************************************************************)
WindowSizes == {<<900, 600>>, <<640, 480>>}
CanvasSizes == {<<9, 10>>, <<10, 9>>, <<10, 10>>}
AllKeys == {"next", "previous", "seek", "delete", "digit"}

\* A session: the folders on offer, the keys the user presses, the sizes the
\* window and the canvas take, and whether python-vlc can be imported.
\*   browse  stills and videos, browsed, scored and deleted
\*   faults  stills that open but cannot be decoded or displayed
\*   render  stills and short animations while the window is being resized
\*   loops   long animations, decoded by a worker thread
\*   redraw  a long animation rendered again while the canvas is laid out,
\*           within the 100 ms before its first animate() timer is due
Session(name, folders, keys, sizes, csizes, vlc) ==
    [name |-> name, folders |-> folders, keys |-> keys, sizes |-> sizes,
     csizes |-> csizes, vlc |-> vlc]

Sessions ==
    { Session("browse", {"pics", "bad", "none"}, AllKeys,
              {<<900, 600>>}, {<<10, 10>>}, BOOLEAN),
      Session("faults", {"trunc"}, {"next", "digit"},
              {<<900, 600>>}, {<<10, 10>>}, BOOLEAN),
      Session("render", {"anim"}, {"next"}, WindowSizes, CanvasSizes, BOOLEAN),
      Session("loops", {"loops"}, {"next"}, {<<900, 600>>}, {<<10, 10>>}, {TRUE}),
      Session("redraw", {"long"}, {}, {<<900, 600>>},
              {<<10, 9>>, <<10, 10>>}, {TRUE}) }

InitialSidecar ==
    [st \in Stems |->
        CASE st = "a" -> Object(TRUE, <<TagCat, ScoreTag("1")>>, "meta")
          [] st = "e" -> Object(TRUE, <<ScoreTag("1"), TagScoreWord, ScoreTag("7")>>, "")
          [] st = "v" -> Garbage
          [] st = "p" -> NonObject
          [] st = "j" -> NonObject
          [] st = "k" -> Object(FALSE, <<>>, "meta")
          [] OTHER -> Absent]

(***************************************************************************)
(* The event loop                                                          *)
(***************************************************************************)
\* the event loop is idle again: what the handler reported is forgotten
Idle(r) ==
    [Collect(r) EXCEPT !.exc = "", !.dialogs = <<>>, !.nflush = 0,
                       !.renders = <<>>, !.depth = 0]

\* a handler has run from the current state and left r
Commit(r) ==
    LET c == Idle(r)
    IN  /\ ~r.overflow
        /\ image_list' = c.image_list
        /\ image_iter' = c.image_iter
        /\ tag_list' = c.tag_list
        /\ window_size' = c.window_size
        /\ resizelast_detect' = c.resizelast_detect
        /\ raw_image' = c.raw_image
        /\ image_cl' = c.image_cl
        /\ image_cl_id' = c.image_cl_id
        /\ playing_video' = c.playing_video
        /\ VLC_SUPPORT' = VLC_SUPPORT
        /\ player' = c.player
        /\ gifs' = c.gifs
        /\ imgs' = c.imgs
        /\ canvas' = c.canvas
        /\ timers' = c.timers
        /\ sidecar' = c.sidecar
        /\ trashed' = c.trashed
        /\ geom' = c.geom
        /\ canvas_size' = c.canvas_size
        /\ wraplength' = c.wraplength
        /\ env' = env

(***************************************************************************)
(* Initial state: Window.__init__                                          *)
(***************************************************************************)
Init ==
    /\ env \in Sessions
    /\ image_list = <<>>
    /\ image_iter = 0
    /\ tag_list = <<>>
    /\ geom \in env.sizes
    /\ window_size = geom
    /\ resizelast_detect = 0
    /\ raw_image = None
    /\ image_cl = None
    /\ image_cl_id = None
    /\ playing_video = FALSE
    /\ VLC_SUPPORT \in env.vlc
    /\ player = ""
    /\ gifs = [g \in GifIds |-> NoGif]
    /\ imgs = [h \in ImgIds |-> NoImg]
    /\ canvas = {}
    /\ timers = NoTimers
    /\ sidecar = InitialSidecar
    /\ trashed = {}
    /\ canvas_size \in env.csizes
    /\ wraplength = 0

(***************************************************************************)
(* Actions: one per event the Tk loop dispatches, one per worker step      *)
(***************************************************************************)
LoadFile ==
    \E d \in env.folders \cup {""} :
        Commit(load_file(St, d))

HandleTag ==
    \E digit \in Digits :
        "digit" \in env.keys /\ Commit(handle_tag(St, digit))

HandleNext == "next" \in env.keys /\ Commit(handle_next(St))

HandlePrevious == "previous" \in env.keys /\ Commit(handle_previous(St))

HandleSeek == "seek" \in env.keys /\ Commit(handle_seek(St))

HandleDelete ==
    \E confirm \in BOOLEAN, trash \in {"ok", "fail"} :
        "delete" \in env.keys /\ Commit(handle_delete(St, confirm, trash))

\* a <Configure> event of the window: Tk runs what the sequence is bound to
Configure ==
    \E sz \in env.sizes :
        Commit(run_bound([St EXCEPT !.geom = sz], register_hotkeys["<Configure>"]))

\* the geometry manager gives the canvas another size
CanvasConfigure ==
    \E cs \in env.csizes :
        /\ cs # canvas_size
        /\ canvas_size' = cs
        /\ UNCHANGED <<image_list, image_iter, tag_list, window_size,
                       resizelast_detect, raw_image, image_cl, image_cl_id,
                       playing_video, VLC_SUPPORT, player, gifs, imgs, canvas,
                       timers, sidecar, trashed, geom, wraplength, env>>

\* the timer events: the head of the queue, or any pending animate()
FireFlushImage ==
    /\ timers.soon # <<>>
    /\ Head(timers.soon) = "flush_image"
    /\ Commit(flush_image([St EXCEPT !.timers.soon = Tail(@)], FALSE))

FireReloadImage ==
    /\ timers.soon # <<>>
    /\ Head(timers.soon) = "reload_image"
    /\ Commit(reload_image([St EXCEPT !.timers.soon = Tail(@)]))

FireAnimate ==
    \E g \in timers.anim :
        Commit(gif_animate([St EXCEPT !.timers.anim = @ \ {g}], g))

\* one step of the worker thread of GifImageTk g (continue_load)
WorkerStep(g) ==
    /\ Running(gifs[g])
    /\ LET r == CASE gifs[g].thr = "copy" ->
                       LET c == clf_copy(St, g)
                       IN  [c.s EXCEPT !.gifs[g].thr = IF c.ok THEN "append" ELSE "done"]
                  [] gifs[g].thr = "append" ->
                       [clf_append(St, g) EXCEPT !.gifs[g].thr = "seek"]
                  [] OTHER ->
                       LET k == clf_seek(St, g)
                       IN  [k.s EXCEPT !.gifs[g].thr = IF k.ok THEN "copy" ELSE "done"]
           c == Collect(r)
       IN  /\ gifs' = c.gifs
           /\ imgs' = c.imgs
    /\ UNCHANGED <<image_list, image_iter, tag_list, window_size,
                   resizelast_detect, raw_image, image_cl, image_cl_id,
                   playing_video, VLC_SUPPORT, player, canvas, timers, sidecar,
                   trashed, geom, canvas_size, wraplength, env>>

Worker == \E g \in GifIds : WorkerStep(g)

Next ==
    \/ LoadFile
    \/ HandleTag
    \/ HandleNext
    \/ HandlePrevious
    \/ HandleSeek
    \/ HandleDelete
    \/ Configure
    \/ CanvasConfigure
    \/ FireFlushImage
    \/ FireReloadImage
    \/ FireAnimate
    \/ Worker

Spec == Init /\ [][Next]_vars

\* One session at a time
InitBrowse == Init /\ env.name = "browse"
NextBrowse ==
    \/ LoadFile
    \/ HandleTag
    \/ HandleNext
    \/ HandlePrevious
    \/ HandleSeek
    \/ HandleDelete
SpecBrowse == InitBrowse /\ [][NextBrowse]_vars

InitFaults == Init /\ env.name = "faults"
NextFaults ==
    \/ LoadFile
    \/ HandleTag
    \/ HandleNext
    \/ FireReloadImage
SpecFaults == InitFaults /\ [][NextFaults]_vars

InitRender == Init /\ env.name = "render"
NextRender ==
    \/ LoadFile
    \/ HandleNext
    \/ Configure
    \/ CanvasConfigure
    \/ FireFlushImage
    \/ FireAnimate
SpecRender == InitRender /\ [][NextRender]_vars

InitLoops == Init /\ env.name = "loops"
NextLoops ==
    \/ LoadFile
    \/ HandleNext
    \/ FireAnimate
    \/ Worker
SpecLoops == InitLoops /\ [][NextLoops]_vars

InitRedraw == Init /\ env.name = "redraw"
NextRedraw ==
    \/ LoadFile
    \/ CanvasConfigure
    \/ FireFlushImage
    \/ Worker
SpecRedraw == InitRedraw /\ [][NextRedraw]_vars


(***************************************************************************)
(* Properties.  A handler is a function of the state, so a property of a   *)
(* handler is stated of its result from every reachable state.             *)
(***************************************************************************)
MaxNav == 3     \* longest sequence of next / previous presses followed

\* the item can be opened and decoded in this environment
Openable(s, p) ==
    /\ path_exists(s, p)
    /\ FileInfo[p].bad # 0
    /\ \/ FileInfo[p].kind = "image"
       \/ FileInfo[p].kind = "video" /\ s.vlc

AllOpenable(s) ==
    \A i \in 1..Len(s.image_list) : Openable(s, s.image_list[i])

Count(keys, k) == Cardinality({i \in DOMAIN keys : keys[i] = k})

NavSeqs == UNION {[1..n -> {"next", "previous"}] : n \in 1..MaxNav}

\* the presses of keys one after the other, the event loop idle in between
RECURSIVE Navigate(_, _)
Navigate(s, keys) ==
    IF keys = <<>> THEN s
    ELSE Navigate(Idle(IF Head(keys) = "next" THEN handle_next(s)
                       ELSE handle_previous(s)),
                  Tail(keys))

\* C1: on a non-empty list of L openable items at index i, next leaves the
\* index at (i + 1) mod L and previous at (i - 1) mod L, so a forward then b
\* backward presses leave (i + a - b) mod L, and the list is never changed;
\* on an empty list both do nothing
C1_NextPrevious ==
    LET L == Len(image_list)
    IN  /\ (L > 0 /\ AllOpenable(St)) =>
              \A keys \in NavSeqs :
                  LET r == Navigate(St, keys)
                      a == Count(keys, "next")
                      b == Count(keys, "previous")
                  IN  \/ r.overflow
                      \/ /\ r.image_iter = (image_iter + a + MaxNav * L - b) % L
                         /\ r.image_list = image_list
        /\ L = 0 => /\ Idle(handle_next(St)) = Idle(St)
                    /\ Idle(handle_previous(St)) = Idle(St)

\* next from the last of three openable items wraps to the first, previous
\* from the first wraps to the last
C1_Witness ==
    /\ Len(image_list) = 3 /\ AllOpenable(St)
    /\ image_iter = 2
    /\ handle_next(St).image_iter = 0
    /\ handle_previous(handle_next(St)).image_iter = 2

\* C2: handle_tag(d) on a non-empty list leaves exactly one score tag in
\* tag_list, the last element, equal to score__d (score__10 for "*"), the
\* other tags kept in order; a second press leaves only the later score
C2_HandleTag ==
    image_list # <<>> =>
        \A d \in Digits :
            LET r == handle_tag(St, d)
                t == r.tag_list
                want == IF d = "*" THEN SCORE_PREFIX \o <<"1", "0">>
                        ELSE SCORE_PREFIX \o <<d>>
                others == SelectSeq(tag_list, LAMBDA tag : ~IsScore(tag))
            IN  /\ t = Append(others, want)
                /\ Cardinality({i \in DOMAIN t : IsScore(t[i])}) = 1
                /\ IsScore(t[Len(t)])
                /\ \A d2 \in Digits \ {d} :
                       LET u == handle_tag(Idle(r), d2).tag_list
                       IN  /\ Cardinality({i \in DOMAIN u : IsScore(u[i])}) = 1
                           /\ u[Len(u)] = ScoreTag(d2)
                           /\ SubSeq(u, 1, Len(u) - 1) = others

\* the current item carries two score tags and another tag besides, and a
\* press replaces them by the one score at the end
C2_Witness ==
    /\ image_list # <<>> /\ InRange(St)
    /\ Cardinality({i \in DOMAIN tag_list : IsScore(tag_list[i])}) = 2
    /\ \E i \in DOMAIN tag_list : ~IsScore(tag_list[i])
    /\ handle_tag(St, "7").tag_list = <<TagScoreWord, ScoreTag("7")>>


\* a still image or a GIF is the current item
ImageCurrent(s) ==
    s.image_list # <<>> /\ InRange(s) /\ s.raw_image # None /\ ~s.playing_video

\* the other size the window can be given
OtherSize(sz) == CHOOSE o \in WindowSizes : o # sz

\* handle_resize on a notification of a size other than the last one
resize_event(s) == handle_resize([s EXCEPT !.geom = OtherSize(s.window_size)])

\* the oldest pending resizelast_detect_f fires
fire_check(s) ==
    resizelast_detect_f([s EXCEPT !.timers.checks = Tail(@)], Head(s.timers.checks))

\* A burst of K notifications, each less than 125 ms after the one before,
\* and the quiet after it, as the order of the notifications ("n") and of the
\* checks firing ("c"): the check of a notification fires after the next
\* notification, so a check fires while a younger one is pending or once all
\* K notifications have been made.
Schedules(K) ==
    {q \in [1..(2 * K) -> {"n", "c"}] :
        /\ Cardinality({i \in 1..(2 * K) : q[i] = "n"}) = K
        /\ \A i \in 1..(2 * K) :
               LET sent == Cardinality({k \in 1..(i - 1) : q[k] = "n"})
                   fired == Cardinality({k \in 1..(i - 1) : q[k] = "c"})
               IN  q[i] = "c" =>
                       \/ sent - fired >= 2
                       \/ sent = K /\ sent - fired >= 1}

RECURSIVE RunSchedule(_, _)
RunSchedule(s, q) ==
    IF q = <<>> THEN s
    ELSE RunSchedule(IF Head(q) = "n" THEN resize_event(s) ELSE fire_check(s),
                     Tail(q))

\* C3 (as stated): a burst of K >= 1 size-changing resize notifications over
\* a still image or GIF leads to exactly one call of flush_image, made by
\* the check of the last notification and by none before it, VLC_SUPPORT
\* true or false
C3_ResizeBurstOnce ==
    ImageCurrent(St) =>
        \A K \in 1..MaxDetect :
            \A q \in Schedules(K) :
                /\ RunSchedule(St, SubSeq(q, 1, 2 * K - 1)).nflush = 0
                /\ RunSchedule(St, q).nflush = 1

\* the GifImageTk objects that were built and not destroyed
Undestroyed == {g \in GifIds : gifs[g].file # "" /\ gifs[g].stopped # "yes"}

FrameOrder(n) == [i \in 1..n |-> i - 1]

\* what the loader of GifImageTk g has to have done so far
LoadedRight(g) ==
    LET gif == gifs[g]
        F == FileInfo[gif.file].nframes
        bad == FileInfo[gif.file].bad
    IN  /\ F <= PRIME_FRAMES => gif.nthr = 0 /\ gif.thr = "none"
        /\ (F > PRIME_FRAMES) => gif.nthr = 1
        /\ gif.frames = FrameOrder(Len(gif.frames))
        /\ Len(gif.frames) <= F
        /\ ~Running(gif) =>
               IF bad = -1 THEN Len(gif.frames) = F
               ELSE Len(gif.frames) = bad /\ Len(gif.frames) < F

\* the worker threads are scheduled
FairLoops == SpecLoops /\ \A g \in GifIds : WF_vars(WorkerStep(g))

\* C4: a GifImageTk over a source of F frames read from frame 0, and not
\* destroyed, starts no worker when F <= 3 and exactly one when F > 3; its
\* loading always comes to a stop, and then frames holds the F frames in
\* source order, or fewer when a frame failed to decode
C4_GifLoads ==
    /\ [](\A g \in Undestroyed : LoadedRight(g))
    /\ \A g \in GifIds : Running(gifs[g]) ~> ~Running(gifs[g])

\* a four-frame GIF, never destroyed, has been loaded to the end by its
\* one worker
C4_Witness ==
    \E g \in Undestroyed :
        /\ FileInfo[gifs[g].file].nframes = 4
        /\ gifs[g].thr = "done" /\ gifs[g].nthr = 1
        /\ gifs[g].frames = <<0, 1, 2, 3>>

\* C5 (as stated): once destroy() has run on a GifImageTk its frames stay
\* as destroy() left them, empty: the worker adds nothing
C5_NoMutationAfterDestroy ==
    \A g \in GifIds : gifs[g].stopped = "yes" => gifs[g].frames = <<>>

\* C6 (as stated): at most one representation is live: the still canvas
\* item, one running GifImageTk animation, or the video playback
C6_OneRepresentation ==
    /\ Cardinality(canvas) + (IF player # "" THEN 1 ELSE 0) <= 1
    /\ Cardinality({g \in GifIds : gifs[g].stopped = "no"}) <= 1

\* the current item of s has been loaded
CurrentLoaded(s) ==
    /\ InRange(s)
    /\ \/ s.playing_video /\ s.player = CurItem(s)
       \/ /\ ~s.playing_video
          /\ s.raw_image # None
          /\ s.imgs[s.raw_image].file = CurItem(s)

\* C7 (as stated): a confirmed, successful delete in a list of M items
\* leaves M - 1 items; for M > 1 the index is valid and that item is loaded,
\* for M = 1 the list is empty and no delete error is reported
C7_DeleteShrinks ==
    (image_list # <<>> /\ InRange(St) /\ AllOpenable(St)) =>
        LET M == Len(image_list)
            r == handle_delete(St, TRUE, "ok")
        IN  \/ r.overflow
            \/ /\ r.image_list = pop(image_list, image_iter)
               /\ M > 1 => r.image_iter \in 0..(M - 2) /\ CurrentLoaded(r)
               /\ M = 1 => "Delete error" \notin Range(r.dialogs)


\* the states reload_image is entered in: a handler has moved image_iter, or
\* load_file has put the files of a folder in image_list
ReloadStarts ==
    {[St EXCEPT !.image_iter = j] : j \in 0..(Len(image_list) - 1)}
    \cup {[St EXCEPT !.image_list = rec_listdir(St, d), !.image_iter = 0] :
             d \in env.folders}

\* every file of the list that opens as an image also decodes and displays
NoTruncated(s) ==
    \A i \in 1..Len(s.image_list) :
        LET p == s.image_list[i]
        IN  /\ FileInfo[p].kind # "nodisplay"
            /\ (path_exists(s, p) /\ FileInfo[p].kind = "image") => FileInfo[p].bad # 0

\* C8: on a list holding any number of items that cannot be opened (and none
\* that opens but does not decode) reload_image returns without an error,
\* has removed only items that cannot be opened, the others keeping their
\* order, has image_iter at 0 when it removed any and unchanged otherwise,
\* and leaves the list empty or an openable current item loaded; with item 0
\* corrupt and item 1 valid, item 1 becomes current and item 0 is gone
C8_ReloadRecovers ==
    \A s0 \in ReloadStarts :
        NoTruncated(s0) =>
            LET r == reload_image(s0)
                L0 == s0.image_list
                kept == Range(r.image_list)
            IN  \/ r.overflow
                \/ /\ r.exc = ""
                   /\ r.image_list = SelectSeq(L0, LAMBDA p : p \in kept)
                   /\ \A p \in Range(L0) \ kept : ~Openable(s0, p)
                   /\ r.image_iter = (IF r.image_list = L0 THEN s0.image_iter ELSE 0)
                   /\ \/ r.image_list = <<>>
                      \/ Openable(s0, CurItem(r)) /\ CurrentLoaded(r)
                   /\ (/\ Len(L0) >= 2
                       /\ ~Openable(s0, L0[1])
                       /\ Openable(s0, L0[2])) =>
                          r.image_list = Tail(L0) /\ CurItem(r) = L0[2]

\* the folder whose first file is corrupt and second valid has been loaded:
\* the corrupt file is gone and the second file is the current, loaded item
C8_Witness ==
    LET files == rec_listdir(St, "pics")
    IN  /\ ~Openable(St, files[1]) /\ Openable(St, files[2])
        /\ image_list = Tail(files)
        /\ image_iter = 0
        /\ CurrentLoaded(St)

\* the indices of the items whose stored tag list holds no score
Unscored(s) ==
    {i \in 0..(Len(s.image_list) - 1) :
        ~AnyScore(load_tags(s, s.image_list[i + 1]))}

\* C9 (as stated): handle_seek on a non-empty list of openable items leaves
\* image_iter at the smallest index whose stored tags hold no score, at 0
\* when every item has one, that item loaded, and raises nothing
C9_SeekFirstUnscored ==
    (image_list # <<>> /\ InRange(St) /\ AllOpenable(St)) =>
        LET r == handle_seek(St)
            U == Unscored(St)
        IN  /\ r.exc = ""
            /\ r.image_iter = (IF U = {} THEN 0
                               ELSE CHOOSE i \in U : \A j \in U : i <= j)
            /\ r.image_list = image_list
            /\ CurrentLoaded(r)

\* the state the pending flush_image(False) runs from
RetryState == [St EXCEPT !.timers.soon = Tail(@)]

\* what the handlers that can reach flush_image leave from the current state
FlushResults ==
    {handle_next(St)}
    \cup {load_file(St, d) : d \in env.folders}
    \cup {fire_check(resize_event(St))}
    \cup (IF timers.soon # <<>> THEN {flush_image(RetryState, FALSE)} ELSE {})

SmallCanvas == canvas_size[1] < MIN_CANVAS \/ canvas_size[2] < MIN_CANVAS

\* C10 (as stated): no call of flush_image builds a representation while the
\* canvas is under 10 px wide or high
C10_NeverRendersSmall ==
    \A r \in FlushResults :
        \A i \in DOMAIN r.renders :
            r.renders[i].cw >= MIN_CANVAS /\ r.renders[i].ch >= MIN_CANVAS

\* C10 (amended): a flush_image call with _recprotect true builds nothing
\* while the canvas is under 10 px wide or high and schedules one retry
\* 10 ms later instead; the retry, flush_image(False), is not rescheduled:
\* it renders once at the size the canvas has then, whatever it is
C10_DefersOnce ==
    /\ \A r \in FlushResults :
           \A i \in DOMAIN r.renders :
               r.renders[i].rec =>
                   r.renders[i].cw >= MIN_CANVAS /\ r.renders[i].ch >= MIN_CANVAS
    /\ (ImageCurrent(St) /\ SmallCanvas) =>
           LET r == flush_image(St, TRUE)
           IN  /\ r.renders = <<>>
               /\ r.timers.soon = Append(timers.soon, "flush_image")
               /\ r.canvas = canvas /\ r.image_cl = image_cl /\ r.gifs = gifs
    /\ (timers.soon # <<>> /\ ImageCurrent(St) /\ ~copy_fails(St, raw_image)) =>
           LET r == flush_image(RetryState, FALSE)
           IN  \/ r.overflow
               \/ /\ Len(r.renders) = 1
                  /\ r.renders[1].cw = canvas_size[1]
                  /\ r.renders[1].ch = canvas_size[2]
                  /\ r.timers.soon = Tail(timers.soon)

\* the retry is pending over a canvas 9 px high and renders at that size
C10_Witness ==
    /\ timers.soon # <<>> /\ ImageCurrent(St)
    /\ canvas_size = <<10, 9>>
    /\ LET r == flush_image(RetryState, FALSE)
       IN  Len(r.renders) = 1 /\ r.renders[1].ch = 9 /\ r.timers.soon = <<>>

MaxRetry == 4   \* retries of reload_image followed from one failure

\* the file opens as an image, but its copy() or its display fails, always
Undecodable(p) ==
    \/ FileInfo[p].kind = "nodisplay"
    \/ FileInfo[p].kind = "image" /\ FileInfo[p].bad = 0

\* the pending reload_image retries fire, one after the other, up to n of them
RECURSIVE Retry(_, _)
Retry(s, n) ==
    IF n = 0 \/ s.exc # "" \/ s.timers.soon = <<>> THEN s
    ELSE Retry(reload_image([Idle(s) EXCEPT !.timers.soon = Tail(@)]), n - 1)

\* C11 (as stated): when the copy or the display of the opened current item
\* fails on every attempt, reload_image and flush_image retry a bounded number
\* of times, each retry after a delay, and then the item is removed from
\* image_list; the retries neither recurse nor reschedule without bound
C11_RetriesBounded ==
    \A s0 \in ReloadStarts :
        (s0.image_list # <<>> /\ Undecodable(CurItem(s0))) =>
            LET r == reload_image(s0)
                e == Retry(r, MaxRetry)
            IN  \/ r.overflow
                \/ /\ r.exc = ""
                   /\ r.depth <= MaxRetry
                   /\ e.timers.soon = <<>>
                   /\ CurItem(s0) \notin Range(e.image_list)

\* what each operation of the user leaves from the current state
Operations ==
    {handle_next(St), handle_previous(St), handle_seek(St)}
    \cup {load_file(St, d) : d \in env.folders \cup {""}}
    \cup {handle_delete(St, confirm, trash) :
             confirm \in BOOLEAN, trash \in {"ok", "fail"}}
    \cup {handle_tag(St, d) : d \in Digits}

\* tag_list is what the sidecar of the current item holds
TagsStored(s) == s.tag_list = load_tags(s, CurItem(s))

\* C12 (as stated): after every operation that completes with a non-empty
\* image_list, tag_list equals the tag sequence stored in the sidecar of
\* image_list[image_iter]
C12_TagsMatchSidecar ==
    \A r \in Operations :
        (r.exc = "" /\ ~r.overflow /\ r.image_list # <<>>) =>
            InRange(r) /\ TagsStored(r)

MaxTags == 2    \* longest tag sequence saved

TagSeqs ==
    UNION {[1..n -> {TagCat, TagScoreWord, ScoreTag("7")}] : n \in 0..MaxTags}

\* C13: save_tags(p, t) followed by load_tags(p) returns t, in order, when
\* the sidecar of p was absent, unparsable or a JSON object with or without a
\* tags field
C13_SaveLoadRoundTrip ==
    \A p \in Files :
        \A t \in TagSeqs :
            sidecar[json_path(p)].kind \in {"absent", "garbage", "object"} =>
                LET r == save_tags(St, p, t)
                IN  r.exc = "" /\ load_tags(r, p) = t

\* a press of a digit has saved the tags of an item whose sidecar was
\* unparsable, and they load again as saved
C13_Witness ==
    /\ image_list # <<>> /\ InRange(St)
    /\ InitialSidecar[json_path(CurItem(St))].kind = "garbage"
    /\ sidecar[json_path(CurItem(St))].kind = "object"
    /\ tag_list # <<>>
    /\ load_tags(St, CurItem(St)) = tag_list

\* C14 (as stated): load_tags and save_tags never raise, whatever the
\* sidecar holds: absent, unparsable, a JSON object, or valid JSON that is
\* not an object; load_tags gives the empty sequence for an absent or
\* unparsable sidecar
C14_TagStoreNeverRaises ==
    \A p \in Files :
        /\ sidecar[json_path(p)].kind \in {"absent", "garbage"} =>
               load_tags(St, p) = <<>>
        /\ \A t \in TagSeqs :
               LET r == save_tags(St, p, t)
               IN  r.exc = "" /\ r.tag_list = tag_list

\* C15: save_tags on a sidecar holding a JSON object replaces the tags field
\* and keeps the value of every other key; no other sidecar is touched
C15_SaveKeepsOtherKeys ==
    \A p \in Files :
        \A t \in TagSeqs :
            sidecar[json_path(p)].kind = "object" =>
                LET r == save_tags(St, p, t)
                    new == r.sidecar[json_path(p)]
                IN  /\ new.kind = "object"
                    /\ new.other = sidecar[json_path(p)].other
                    /\ new.hasTags /\ new.tags = t
                    /\ \A st \in Stems \ {json_path(p)} :
                           r.sidecar[st] = sidecar[st]

\* a press of a digit has rewritten the sidecar of an item that carries
\* another key besides the tags, and the key is still there
C15_Witness ==
    /\ image_list # <<>> /\ InRange(St)
    /\ InitialSidecar[json_path(CurItem(St))].other = "meta"
    /\ sidecar[json_path(CurItem(St))].tags # InitialSidecar[json_path(CurItem(St))].tags
    /\ sidecar[json_path(CurItem(St))].other = "meta"

\* destroy() on GifImageTk g of s returns and leaves the object torn down
DestroyedCleanly(s, g) ==
    LET d == gif_destroy(s, g)
    IN  /\ d.exc = ""
        /\ d.gifs[g].stopped = "yes"
        /\ d.gifs[g].image_id = None
        /\ d.gifs[g].frames = <<>>

\* C16 (as stated): destroy() returns without raising and leaves stopped
\* true, image_id None and frames empty from every state of a GifImageTk:
\* started (the worker running or not), destroyed before, constructed and
\* not started, and started over a handle whose frame does not decode
C16_DestroyAlwaysSafe ==
    /\ \A g \in GifIds :
           gifs[g].file # "" =>
               /\ DestroyedCleanly(St, g)
               /\ DestroyedCleanly(gif_destroy(St, g), g)
    /\ (raw_image # None /\ HasFreeGif(St)) =>
           LET g == FreeGif(St)
               built == gif_init(St, g, raw_image)
           IN  /\ DestroyedCleanly(built, g)
               /\ DestroyedCleanly(gif_start(built, g), g)

\* C17 (as stated): in the constructed Window handle_resize is bound to
\* <Configure> next to update_taglist_wraplength, so a Configure event that
\* reports a size other than window_size records the size, increments
\* resizelast_detect and schedules one check 125 ms later
C17_ConfigureReachesResize ==
    /\ "handle_resize" \in Range(register_hotkeys["<Configure>"])
    /\ \A sz \in env.sizes :
           sz # window_size =>
               LET r == run_bound([St EXCEPT !.geom = sz],
                                  register_hotkeys["<Configure>"])
               IN  /\ r.window_size = sz
                   /\ r.resizelast_detect = resizelast_detect + 1
                   /\ r.timers.checks = Append(timers.checks, resizelast_detect + 1)

\* C18 (as stated): whenever image_list is not empty image_iter is an index
\* of it, after every operation, those that end by raising included
C18_IndexInRange ==
    image_list # <<>> => image_iter \in 0..(Len(image_list) - 1)

\* C19 (as stated): whenever image_list is empty nothing is displayed (no
\* canvas item, no running GIF animation, no video playing) and tag_list is
\* empty
C19_EmptyListShowsNothing ==
    image_list = <<>> =>
        /\ canvas = {} /\ image_cl_id = None
        /\ \A g \in GifIds : gifs[g].stopped # "no"
        /\ player = "" /\ ~playing_video
        /\ tag_list = <<>>

\* the GifImageTk objects whose worker is running on handle h
WorkersOn(s, h) == {g \in GifIds : Running(s.gifs[g]) /\ s.gifs[g].img = h}

\* C20 (as stated): at most one worker runs on an image handle, and the
\* retry of flush_image builds no GifImageTk (whose constructor copies and
\* seeks) over _raw_image while a worker is running on it
C20_OneDecoderPerHandle ==
    /\ \A h \in ImgIds : Cardinality(WorkersOn(St, h)) <= 1
    /\ (timers.soon # <<>> /\ Head(timers.soon) = "flush_image"
            /\ raw_image # None /\ WorkersOn(St, raw_image) # {}) =>
           LET r == flush_image(RetryState, FALSE)
           IN  \/ r.overflow
               \/ \A g \in GifIds : gifs[g].file = "" => r.gifs[g].file = ""

MaxEvents == 4  \* resize notifications and checks followed in one run

\* Runs of up to MaxEvents size-changing notifications ("n") and checks
\* ("c"), over any number of bursts: a check fires only when one is pending,
\* and RunSchedule fires the pending checks in the order they were scheduled
Runs ==
    {q \in UNION {[1..n -> {"n", "c"}] : n \in 1..MaxEvents} :
        \A i \in 1..Len(q) :
            Cardinality({k \in 1..i : q[k] = "c"})
                <= Cardinality({k \in 1..i : q[k] = "n"})}

\* the state after the first i events of q
After(q, i) == RunSchedule(St, SubSeq(q, 1, i))

\* the notifications of q since the last check that found its own generation
SinceMatch(q, i) ==
    LET matches == {k \in 1..i : q[k] = "c" /\ After(q, k).resizelast_detect = 0}
        last == IF matches = {} THEN 0
                ELSE CHOOSE k \in matches : \A j \in matches : j <= k
    IN  Cardinality({k \in (last + 1)..i : q[k] = "n"})

\* C21 (as stated): resizelast_detect never decreases: a size-changing
\* notification adds one and no check lowers it
C21_CounterNeverDecreases ==
    resizelast_detect = 0 /\ timers.checks = <<>> =>
        \A q \in Runs :
            \A i \in 1..Len(q) :
                LET was == After(q, i - 1).resizelast_detect
                    now == After(q, i).resizelast_detect
                IN  IF q[i] = "n" THEN now = was + 1 ELSE now >= was

\* C21 (amended): a size-changing notification adds one to
\* resizelast_detect; a check of an older generation leaves it unchanged; the
\* check of the current generation sets it back to 0, so the counter is the
\* number of notifications since the last such check
C21_CounterSinceLastMatch ==
    resizelast_detect = 0 /\ timers.checks = <<>> =>
        \A q \in Runs :
            \A i \in 1..Len(q) :
                LET b == After(q, i - 1)
                    a == After(q, i)
                IN  /\ q[i] = "n" => a.resizelast_detect = b.resizelast_detect + 1
                    /\ q[i] = "c" =>
                           a.resizelast_detect =
                               (IF Head(b.timers.checks) = b.resizelast_detect
                                THEN 0 ELSE b.resizelast_detect)
                    /\ a.resizelast_detect = SinceMatch(q, i)

\* over a displayed image two notifications and the check of the first have
\* left the counter at 2, and the check of the second sets it back to 0
C21_Witness ==
    /\ ImageCurrent(St) /\ resizelast_detect = 0 /\ timers.checks = <<>>
    /\ RunSchedule(St, <<"n", "n", "c">>).resizelast_detect = 2
    /\ RunSchedule(St, <<"n", "n", "c", "c">>).resizelast_detect = 0

\* the position in q of the notification whose check is the one fired at
\* position i: checks fire in scheduling order, so the m-th check belongs to
\* the m-th notification
NotifiedAt(q, i) ==
    LET m == Cardinality({k \in 1..i : q[k] = "c"})
    IN  CHOOSE j \in 1..i :
            q[j] = "n" /\ Cardinality({k \in 1..j : q[k] = "n"}) = m

\* C22: with the pending checks firing in scheduling order, over any number
\* of bursts, a check calls flush_image only if no size-changing
\* notification arrived between its scheduling and its firing, and then it
\* calls it once
C22_RenderOnlyWhenQuiet ==
    resizelast_detect = 0 /\ timers.checks = <<>> =>
        \A q \in Runs :
            \A i \in 1..Len(q) :
                LET calls == After(q, i).nflush - After(q, i - 1).nflush
                IN  /\ q[i] = "n" => calls = 0
                    /\ q[i] = "c" =>
                           /\ calls \in {0, 1}
                           /\ calls = 1 =>
                                  \A k \in (NotifiedAt(q, i) + 1)..(i - 1) : q[k] # "n"

\* two bursts over a displayed image: the check of the single notification
\* of the first burst renders, the first check of the second burst, with a
\* newer notification behind it, does not, and the last one renders
C22_Witness ==
    /\ ImageCurrent(St) /\ VLC_SUPPORT
    /\ resizelast_detect = 0 /\ timers.checks = <<>>
    /\ RunSchedule(St, <<"n", "c">>).nflush = 1
    /\ RunSchedule(St, <<"n", "c", "n", "n", "c">>).nflush = 1
    /\ RunSchedule(St, <<"n", "c", "n", "n", "c", "c">>).nflush = 2

\* C23 (as stated): with image_list empty a press of a score key changes
\* nothing (tag_list and the sidecars stay as they were) and raises nothing
C23_TagOnEmptyListNoOp ==
    image_list = <<>> =>
        \A d \in Digits :
            LET r == handle_tag(St, d)
            IN  /\ r.exc = ""
                /\ r.tag_list = tag_list
                /\ r.sidecar = sidecar

\* the pending animate() of GifImageTk g fires
tick(g) == gif_animate([St EXCEPT !.timers.anim = @ \ {g}], g)

\* destroy() has run on GifImageTk g
Destroyed(g) == gifs[g].stopped = "yes" /\ gifs[g].image_id = None

\* C24: a tick of animate() after destroy() changes neither the canvas nor
\* the object and schedules no further tick, also when the worker has added
\* frames since; a tick that finds frames empty schedules none; a tick of a
\* running animation sets current_frame to (current_frame + 1) mod
\* len(frames) and schedules the next, and current_frame is an index of
\* frames whenever an animation is running
C24_AnimateStopsAfterDestroy ==
    /\ \A g \in timers.anim :
           LET r == tick(g)
               n == Len(gifs[g].frames)
           IN  /\ Destroyed(g) =>
                      /\ r.canvas = canvas
                      /\ r.gifs = gifs
                      /\ r.timers.anim = timers.anim \ {g}
               /\ n = 0 => g \notin r.timers.anim
               /\ (gifs[g].stopped = "no" /\ n > 0) =>
                      /\ r.gifs[g].current_frame = (gifs[g].current_frame + 1) % n
                      /\ r.gifs[g].current_frame \in 0..(n - 1)
                      /\ g \in r.timers.anim
    /\ \A g \in GifIds :
           gifs[g].stopped = "no" =>
               gifs[g].current_frame \in 0..(Len(gifs[g].frames) - 1)

\* a tick is pending for a GifImageTk that was destroyed and to which the
\* worker has added a frame since, and the tick does nothing
C24_Witness ==
    \E g \in timers.anim :
        /\ Destroyed(g) /\ gifs[g].frames # <<>>
        /\ tick(g).canvas = canvas
        /\ g \notin tick(g).timers.anim

====
